---- MODULE Spec2Model ----
(***************************************************************************)
(* A model of ndcube.global_coords.GlobalCoords: an insertion-ordered,     *)
(* name-keyed mapping name -> (physical_type, coord), optionally merged    *)
(* with the entries derived from the dropped world dimensions of the       *)
(* parent cube's WCS.                                                      *)
(*                                                                         *)
(* A Python dict (insertion ordered) is a sequence of entries              *)
(* [key, ptype, coord] with pairwise distinct keys.  A Quantity            *)
(* (number * unit) is a record [num, unit].                                *)
(***************************************************************************)
EXTENDS Integers, Sequences, FiniteSets, TLC

\* ------------------------------------------------------------------ bounds
\* Number of state-changing calls (successful add/remove, filter, a change
\* of the parent's WCS) in one run.
MaxOps == 3

\* ------------------------------------------------------------ value domains
NoneV == "<None>"          \* Python's None as a physical type
NoCube == "<no ndcube>"    \* _ndcube is None
Cube == "ndcube"           \* _ndcube is the parent cube

Colls == {"gc", "fgc"}     \* the collection and the result of a filter call
Names == {"time", "a"}     \* names passed to add / remove / lookup

Quantity(n, unit) == [num |-> n, unit |-> unit]
NoRet == Quantity(-1, "<no value>")
Coords == {Quantity(5, "s"), Quantity(9, "m")}

Vocabulary == {"time", "em.wl"}          \* recognised UCD1+ words
CustomTypes == {"custom:x"}              \* strings that start with "custom:"
AddTypes == {"time", "custom:x", "not_a_real_type"}
FilterTypes == {"time", "custom:x", "em.wl"}

\* The parent's wcs.low_level_wcs: has |-> hasattr(.., "dropped_world_dimensions"),
\* the four parallel lists of the record; the record is {} iff it lists no axis.
Wcs(has, names, types, values, units) ==
    [has |-> has, world_axis_names |-> names, world_axis_physical_types |-> types,
     value |-> values, world_axis_units |-> units]
WcsNoAttr == Wcs(FALSE, <<>>, <<>>, <<>>, <<>>)
WcsEmpty == Wcs(TRUE, <<>>, <<>>, <<>>, <<>>)
WcsTime == Wcs(TRUE, <<"time">>, <<"time">>, <<5>>, <<"s">>)
WcsTwo == Wcs(TRUE, <<"", "a">>, <<"em.wl", "time">>, <<1, 2>>, <<"nm", "s">>)
WcsSameKey == Wcs(TRUE, <<"", "">>, <<"time", "time">>, <<5, 6>>, <<"s", "s">>)
ParentStates == {WcsNoAttr, WcsEmpty, WcsTime, WcsTwo, WcsSameKey}

\* ------------------------------------------------------------- dict helpers
Entry(k, pt, v) == [key |-> k, ptype |-> pt, coord |-> v]

Keys(d) == [i \in 1..Len(d) |-> d[i].key]

HasKey(d, k) == \E i \in 1..Len(d) : d[i].key = k

IndexOf(d, k) == CHOOSE i \in 1..Len(d) : d[i].key = k

\* (a bug: assigning to a present key moves it to the end)
DictSet_MoveToEnd(d, k, pt, v) ==
    Append(SelectSeq(d, LAMBDA e : e.key # k), Entry(k, pt, v))

\* d[k] = (pt, v): a present key keeps its position, a new key goes last.
DictSet(d, k, pt, v) ==
    IF HasKey(d, k)
    THEN [d EXCEPT ![IndexOf(d, k)] = Entry(k, pt, v)]
    ELSE Append(d, Entry(k, pt, v))

\* (a bug: nothing is deleted)
DictDel_Noop(d, k) == d

\* del d[k]
DictDel(d, k) == SelectSeq(d, LAMBDA e : e.key # k)

\* {**a, **b}
RECURSIVE DictMerge(_, _)
DictMerge(a, b) ==
    IF b = <<>> THEN a
    ELSE DictMerge(DictSet(a, b[1].key, b[1].ptype, b[1].coord), Tail(b))

\* ---------------------------------------------------------- derived entries
\* dropped_world["world_axis_names"][i] or dropped_world["world_axis_physical_types"][i]
AxisName(dw, i) ==
    IF dw.world_axis_names[i] # "" THEN dw.world_axis_names[i]
    ELSE dw.world_axis_physical_types[i]

\* (a bug: each axis combined with its own unit)
AxisVal_OwnUnit(dw, i) == Quantity(dw.value[i], dw.world_axis_units[i])

\* dropped_world["value"][i] * u.Unit(dropped_world["world_axis_units"][0])
AxisVal(dw, i) == Quantity(dw.value[i], dw.world_axis_units[1])

\* the loop over range(len(dropped_world["value"])), axes 1..n done
RECURSIVE WcsDropped(_, _)
WcsDropped(dw, n) ==
    IF n = 0 THEN <<>>
    ELSE DictSet(WcsDropped(dw, n - 1), AxisName(dw, n),
                 dw.world_axis_physical_types[n], AxisVal(dw, n))

\* _all_coords of a collection with parent nd, explicit store and parent WCS dw
AllCoordsOf(nd, store, dw) ==
    IF nd = NoCube THEN store
    ELSE IF dw.has /\ dw.value # <<>>
         THEN DictMerge(WcsDropped(dw, Len(dw.value)), store)
         ELSE store

\* ------------------------------------------------------------------- state
VARIABLES
    ndcube,           \* [Colls -> {NoCube, Cube}]: each collection's _ndcube
    internal_coords,  \* [Colls -> dict]: each collection's _internal_coords
    created,          \* TRUE once filter_by_physical_type has returned "fgc"
    low_level_wcs,    \* the parent cube's wcs.low_level_wcs
    last,             \* the last call: arguments, outcome, and the state before it
    nAdds,            \* successful add calls on "gc"
    nRemoves,         \* successful remove calls on "gc"
    steps             \* state-changing calls so far

vars == <<ndcube, internal_coords, created, low_level_wcs, last, nAdds, nRemoves, steps>>

\* _all_coords of collection c in the current state
AllCoords(c) == AllCoordsOf(ndcube[c], internal_coords[c], low_level_wcs)

\* ----------------------------------------------------------- the operations
\* validate_physical_types((physical_type,)): None, a recognised word or "custom:..."
ValidPhysicalType(pt) == pt = NoneV \/ pt \in Vocabulary \/ pt \in CustomTypes

\* (a bug: the duplicate check looks at the merged view)
AddDuplicate_Merged(c, name) == HasKey(AllCoords(c), name)

\* add: "if name in self._internal_coords.keys()"
AddDuplicate(c, name) == HasKey(internal_coords[c], name)

\* (a bug: no duplicate check)
AddOutcome_NoDupCheck(c, name, pt) ==
    IF ~ValidPhysicalType(pt) THEN "invalid-physical-type" ELSE "ok"

\* add: what the call raises
AddOutcome(c, name, pt) ==
    IF AddDuplicate(c, name) THEN "duplicate-name"
    ELSE IF ~ValidPhysicalType(pt) THEN "invalid-physical-type"
    ELSE "ok"

\* (a bug: the entry is never stored)
AddStore_NoInsert(c, name, pt, coord) == internal_coords[c]

\* (a bug: the entry is stored before the physical type is validated)
AddStore_InsertFirst(c, name, pt, coord) ==
    IF AddOutcome(c, name, pt) \in {"ok", "invalid-physical-type"}
    THEN DictSet(internal_coords[c], name, pt, coord)
    ELSE internal_coords[c]

\* add: _internal_coords after the call
AddStore(c, name, pt, coord) ==
    IF AddOutcome(c, name, pt) = "ok"
    THEN DictSet(internal_coords[c], name, pt, coord)
    ELSE internal_coords[c]

\* (a bug: remove looks the name up in the merged view)
RemoveOutcome_Merged(c, name) == IF HasKey(AllCoords(c), name) THEN "ok" ELSE "not-found"

\* remove: what "del self._internal_coords[name]" raises
RemoveOutcome(c, name) == IF HasKey(internal_coords[c], name) THEN "ok" ELSE "not-found"

\* remove: _internal_coords after the call
RemoveStore(c, name) ==
    IF RemoveOutcome(c, name) = "ok" THEN DictDel(internal_coords[c], name)
    ELSE internal_coords[c]

\* __getitem__ on a merged view
GetItem(all, item) ==
    IF HasKey(all, item)
    THEN [outcome |-> "ok", ret |-> all[IndexOf(all, item)].coord]
    ELSE [outcome |-> "not-found", ret |-> NoRet]

\* __iter__, __len__ and physical_types on a merged view
Iter(all) == Keys(all)

Length(all) == Len(all)

PhysicalTypes(all) ==
    [k \in {all[i].key : i \in 1..Len(all)} |-> all[IndexOf(all, k)].ptype]

\* (a bug: the new collection is built with the parent of the filtered one)
FilterNdcube_KeepParent(c) == ndcube[c]

\* filter_by_physical_type: the new collection's _ndcube, "GlobalCoords()"
FilterNdcube(c) == NoCube

\* (a bug: only the explicit store is filtered)
FilterStore_ExplicitOnly(all, physical_type) ==
    SelectSeq(internal_coords["gc"], LAMBDA e : e.ptype = physical_type)

\* filter_by_physical_type: the new collection's _internal_coords
FilterStore(all, physical_type) == SelectSeq(all, LAMBDA e : e.ptype = physical_type)

\* ------------------------------------------------------------ the state machine
Pre == [internal_coords |-> internal_coords, low_level_wcs |-> low_level_wcs,
        created |-> created]

Call(op, c, name, pt, coord, outcome, ret) ==
    [op |-> op, coll |-> c, name |-> name, ptype |-> pt, coord |-> coord,
     outcome |-> outcome, ret |-> ret, pre |-> Pre]

Init ==
    /\ \E nd \in {NoCube, Cube} :
          /\ ndcube = [c \in Colls |-> IF c = "gc" THEN nd ELSE NoCube]
          /\ low_level_wcs \in (IF nd = Cube THEN ParentStates ELSE {WcsNoAttr})
    /\ internal_coords = [c \in Colls |-> <<>>]
    /\ created = FALSE
    /\ last = [op |-> "init", coll |-> "gc", name |-> "", ptype |-> NoneV,
               coord |-> NoRet, outcome |-> "ok", ret |-> NoRet,
               pre |-> [internal_coords |-> [c \in Colls |-> <<>>],
                        low_level_wcs |-> low_level_wcs, created |-> FALSE]]
    /\ nAdds = 0
    /\ nRemoves = 0
    /\ steps = 0

Exists(c) == c = "gc" \/ created

Add(c, name, pt, coord) ==
    LET out == AddOutcome(c, name, pt)
        ok == IF out = "ok" THEN 1 ELSE 0
    IN  /\ Exists(c)
        /\ steps + ok <= MaxOps
        /\ internal_coords' = [internal_coords EXCEPT ![c] = AddStore(c, name, pt, coord)]
        /\ last' = Call("add", c, name, pt, coord, out, NoRet)
        /\ nAdds' = IF c = "gc" THEN nAdds + ok ELSE nAdds
        /\ steps' = steps + ok
        /\ UNCHANGED <<ndcube, created, low_level_wcs, nRemoves>>

Remove(c, name) ==
    LET out == RemoveOutcome(c, name)
        ok == IF out = "ok" THEN 1 ELSE 0
    IN  /\ Exists(c)
        /\ steps + ok <= MaxOps
        /\ internal_coords' = [internal_coords EXCEPT ![c] = RemoveStore(c, name)]
        /\ last' = Call("remove", c, name, NoneV, NoRet, out, NoRet)
        /\ nRemoves' = IF c = "gc" THEN nRemoves + ok ELSE nRemoves
        /\ steps' = steps + ok
        /\ UNCHANGED <<ndcube, created, low_level_wcs, nAdds>>

Lookup(c, item) ==
    LET r == GetItem(AllCoords(c), item)
    IN  /\ Exists(c)
        /\ last' = Call("lookup", c, item, NoneV, NoRet, r.outcome, r.ret)
        /\ UNCHANGED <<ndcube, internal_coords, created, low_level_wcs,
                       nAdds, nRemoves, steps>>

FilterByPhysicalType(physical_type) ==
    /\ steps < MaxOps
    /\ ndcube' = [ndcube EXCEPT !["fgc"] = FilterNdcube("gc")]
    /\ internal_coords' = [internal_coords EXCEPT
                              !["fgc"] = FilterStore(AllCoords("gc"), physical_type)]
    /\ created' = TRUE
    /\ last' = Call("filter", "gc", "", physical_type, NoRet, "ok", NoRet)
    /\ steps' = steps + 1
    /\ UNCHANGED <<low_level_wcs, nAdds, nRemoves>>

\* the parent cube's WCS gets other dropped dimensions
ParentChange(w) ==
    /\ ndcube["gc"] = Cube
    /\ w # low_level_wcs
    /\ steps < MaxOps
    /\ low_level_wcs' = w
    /\ last' = Call("parent", "gc", "", NoneV, NoRet, "ok", NoRet)
    /\ steps' = steps + 1
    /\ UNCHANGED <<ndcube, internal_coords, created, nAdds, nRemoves>>

Next ==
    \/ \E c \in Colls, name \in Names, pt \in AddTypes, coord \in Coords :
          Add(c, name, pt, coord)
    \/ \E c \in Colls, name \in Names : Remove(c, name)
    \/ \E c \in Colls, item \in Names : Lookup(c, item)
    \/ \E t \in FilterTypes : FilterByPhysicalType(t)
    \/ \E w \in ParentStates : ParentChange(w)

Spec == Init /\ [][Next]_vars

\* ------------------------------------------------- vocabulary of the claims
Op == last.op
Coll == last.coll
PreStore(c) == last.pre.internal_coords[c]
PreAll(c) == AllCoordsOf(ndcube[c], PreStore(c), last.pre.low_level_wcs)
Derived(c) == AllCoordsOf(ndcube[c], <<>>, low_level_wcs)
PreDerived(c) == AllCoordsOf(ndcube[c], <<>>, last.pre.low_level_wcs)
At(d, k) == d[IndexOf(d, k)]
Range(s) == {s[i] : i \in 1..Len(s)}
IsValidType(pt) == pt \in {"time", "custom:x"}
Found(v) == [outcome |-> "ok", ret |-> v]

\* s without its i-th element
Without(s, i) == SubSeq(s, 1, i - 1) \o SubSeq(s, i + 1, Len(s))

\* s with every repeated element dropped, first occurrences kept in order
RECURSIVE Dedup(_)
Dedup(s) ==
    IF s = <<>> THEN <<>>
    ELSE LET r == Dedup(SubSeq(s, 1, Len(s) - 1))
         IN  IF s[Len(s)] \in Range(r) THEN r ELSE Append(r, s[Len(s)])

\* ---------------------------------------------------------------- the claims
\* C1: after add(name, type, value) with a valid type and a name that was not
\* in the collection (its merged view), the add has succeeded, lookup(name)
\* returns value, physical_types[name] is type and the length has grown by 1.
C1_AddThenRead ==
    (Op = "add" /\ IsValidType(last.ptype) /\ ~HasKey(PreAll(Coll), last.name)) =>
        LET all == AllCoords(Coll)
        IN  /\ last.outcome = "ok"
            /\ GetItem(all, last.name) = Found(last.coord)
            /\ last.name \in DOMAIN PhysicalTypes(all)
            /\ PhysicalTypes(all)[last.name] = last.ptype
            /\ Length(all) = Length(PreAll(Coll)) + 1

\* an add of a new name to an attached collection whose parent derives entries
C1_Witness ==
    /\ Op = "add" /\ IsValidType(last.ptype) /\ ~HasKey(PreAll(Coll), last.name)
    /\ ndcube[Coll] = Cube /\ Len(PreDerived(Coll)) > 0
    /\ Len(PreStore(Coll)) > 0

\* C2 as stated: after a successful remove(name), lookup(name) fails with
\* not-found, in a standalone and in an attached collection alike.
C2_Original ==
    (Op = "remove" /\ last.outcome = "ok") =>
        GetItem(AllCoords(Coll), last.name).outcome = "not-found"

\* C2 amended: after a successful remove(name), lookup(name) fails with
\* not-found unless the parent derives an entry named name; then lookup(name)
\* returns the derived value.
C2_RemoveThenLookup ==
    (Op = "remove" /\ HasKey(PreStore(Coll), last.name)) =>
        /\ last.outcome = "ok"
        /\ IF HasKey(Derived(Coll), last.name)
           THEN GetItem(AllCoords(Coll), last.name) = Found(At(Derived(Coll), last.name).coord)
           ELSE GetItem(AllCoords(Coll), last.name).outcome = "not-found"

\* a successful remove, in an attached collection with derived entries, of a
\* name the parent does not derive
C2_Witness ==
    /\ Op = "remove" /\ HasKey(PreStore(Coll), last.name)
    /\ ndcube[Coll] = Cube /\ Len(Derived(Coll)) > 0
    /\ ~HasKey(Derived(Coll), last.name)

\* the calls that C3 names as failing, told from the arguments and the state before
C3_Fails ==
    \/ Op = "add" /\ (HasKey(PreStore(Coll), last.name) \/ ~IsValidType(last.ptype))
    \/ Op = "remove" /\ ~HasKey(PreStore(Coll), last.name)
    \/ Op = "lookup" /\ ~HasKey(PreAll(Coll), last.name)

\* C3: a failing call (an add of a name of the explicit store, an add with an
\* invalid physical type, a remove of a name that is no explicit entry, a
\* lookup of an absent name) fails and leaves every explicit store, the
\* parent and every merged view as they were.
C3_FailureChangesNothing ==
    C3_Fails =>
        /\ last.outcome # "ok"
        /\ internal_coords = last.pre.internal_coords
        /\ low_level_wcs = last.pre.low_level_wcs
        /\ created = last.pre.created
        /\ \A c \in Colls : AllCoords(c) = PreAll(c)

\* an add with an invalid physical type, of a new name, to a non-empty store
C3_Witness ==
    /\ Op = "add" /\ ~IsValidType(last.ptype)
    /\ ~HasKey(PreStore(Coll), last.name)
    /\ Len(PreStore(Coll)) > 0
    /\ last.outcome = "invalid-physical-type"

\* C4: add fails with duplicate-name iff the name is an explicit entry; with a
\* valid type and a name that is no explicit entry it succeeds, also when the
\* parent derives that name, and then lookup and physical_types report the
\* explicit value and type.
C4_DuplicateCheckIsExplicitOnly ==
    Op = "add" =>
        /\ (last.outcome = "duplicate-name") <=> HasKey(PreStore(Coll), last.name)
        /\ (IsValidType(last.ptype) /\ ~HasKey(PreStore(Coll), last.name)) =>
              /\ last.outcome = "ok"
              /\ GetItem(AllCoords(Coll), last.name) = Found(last.coord)
              /\ PhysicalTypes(AllCoords(Coll))[last.name] = last.ptype

\* an add of a name the parent derives, with another type and value
C4_Witness ==
    /\ Op = "add" /\ last.outcome = "ok" /\ ndcube[Coll] = Cube
    /\ HasKey(PreDerived(Coll), last.name)
    /\ At(PreDerived(Coll), last.name).ptype # last.ptype
    /\ At(PreDerived(Coll), last.name).coord # last.coord

\* C5: remove(name) deletes the explicit entry at name and nothing else, fails
\* with not-found when name is no explicit entry (also when the parent derives
\* it), and every derived name stays in the merged view.
C5_RemoveIsExplicitOnly ==
    Op = "remove" =>
        LET before == PreStore(Coll)
            after == internal_coords[Coll]
        IN  /\ IF HasKey(before, last.name)
               THEN /\ last.outcome = "ok"
                    /\ \E i \in 1..Len(before) :
                          before[i].key = last.name /\ after = Without(before, i)
               ELSE last.outcome = "not-found" /\ after = before
            /\ \A c \in Colls \ {Coll} : internal_coords[c] = PreStore(c)
            /\ low_level_wcs = last.pre.low_level_wcs
            /\ \A k \in Range(Keys(PreDerived(Coll))) :
                  /\ HasKey(AllCoords(Coll), k)
                  /\ ~HasKey(after, k) => At(AllCoords(Coll), k) = At(PreDerived(Coll), k)

\* a remove of a name that is in the merged view only as a derived entry
C5_Witness ==
    /\ Op = "remove" /\ last.outcome = "not-found"
    /\ HasKey(PreDerived(Coll), last.name)
    /\ Len(PreStore(Coll)) > 0

\* the names in the order C6 states: the derived names as the parent lists
\* them, then the explicit names, each name at its first occurrence only
AxisNames(dw) ==
    [i \in 1..Len(dw.value) |->
        IF dw.world_axis_names[i] = "" THEN dw.world_axis_physical_types[i]
        ELSE dw.world_axis_names[i]]

ExpectedNames(c) ==
    IF ndcube[c] = Cube /\ low_level_wcs.has
    THEN Dedup(AxisNames(low_level_wcs) \o Keys(internal_coords[c]))
    ELSE Keys(internal_coords[c])

\* C6: iteration, length and lookup show one merged view: the derived names
\* first, in the parent's order, then the explicit names that are not derived,
\* in insertion order, each once; a name in both reports the explicit type
\* and value; length is the number of names.
C6_MergedView ==
    \A c \in Colls :
        LET all == AllCoords(c)
            names == ExpectedNames(c)
        IN  /\ Iter(all) = names
            /\ Length(all) = Cardinality(Range(names))
            /\ \A i, j \in 1..Len(Iter(all)) : Iter(all)[i] = Iter(all)[j] => i = j
            /\ DOMAIN PhysicalTypes(all) = Range(names)
            /\ \A k \in Range(names) : GetItem(all, k).outcome = "ok"
            /\ \A i \in 1..Len(internal_coords[c]) :
                  LET e == internal_coords[c][i]
                  IN  /\ GetItem(all, e.key) = Found(e.coord)
                      /\ PhysicalTypes(all)[e.key] = e.ptype

\* two derived names, the second one overridden, and an explicit name of its own
C6_Witness ==
    /\ ndcube["gc"] = Cube /\ low_level_wcs = WcsTwo
    /\ Keys(internal_coords["gc"]) = <<"time", "a">>
    /\ Iter(AllCoords("gc")) = <<"em.wl", "a", "time">>

\* C7: filter_by_physical_type(t) returns a collection whose entries are the
\* merged-view entries of type t, with their values, in merged-view order.
C7_FilterIsTheSubset ==
    Op = "filter" =>
        LET all == PreAll("gc")
            res == AllCoords("fgc")
        IN  /\ \A i \in 1..Len(res) :
                  res[i].ptype = last.ptype /\ \E j \in 1..Len(all) : all[j] = res[i]
            /\ \A j \in 1..Len(all) :
                  all[j].ptype = last.ptype => \E i \in 1..Len(res) : res[i] = all[j]
            /\ \A i, j \in 1..Len(res) :
                  i < j => IndexOf(all, res[i].key) < IndexOf(all, res[j].key)

\* a filter that keeps a derived and an explicit entry and leaves out a
\* derived entry of type t that an explicit entry of another type shadows
C7_Witness ==
    /\ Op = "filter" /\ Len(internal_coords["fgc"]) >= 1
    /\ \E k \in Range(Keys(PreDerived("gc"))) :
          /\ At(PreDerived("gc"), k).ptype = last.ptype
          /\ HasKey(PreStore("gc"), k)
          /\ ~HasKey(internal_coords["fgc"], k)
    /\ \E k \in Range(Keys(internal_coords["fgc"])) : HasKey(PreStore("gc"), k)

\* C8: the filtered collection has no parent; add/remove on the original and
\* a change of the parent leave its contents as they were; add/remove on the
\* filtered collection leave the original's explicit store as it was.
C8_FilteredIsDetached ==
    /\ created => ndcube["fgc"] = NoCube
    /\ (last.pre.created /\ Op \in {"add", "remove", "parent"} /\ Coll = "gc") =>
          /\ internal_coords["fgc"] = PreStore("fgc")
          /\ AllCoords("fgc") = PreAll("fgc")
    /\ (Op \in {"add", "remove"} /\ Coll = "fgc") =>
          /\ internal_coords["gc"] = PreStore("gc")
          /\ AllCoords("gc") = PreAll("gc")

\* the parent changes its dropped dimensions after a filter kept a derived entry
C8_Witness ==
    /\ Op = "parent" /\ last.pre.created
    /\ Len(internal_coords["fgc"]) > 0
    /\ Derived("gc") # PreDerived("gc")
    /\ \E k \in Range(Keys(internal_coords["fgc"])) : ~HasKey(AllCoords("gc"), k)

\* C9: for a standalone collection the merged view is the explicit store and
\* the length is the number of successful adds minus successful removes.
C9_StandaloneRoundTrip ==
    ndcube["gc"] = NoCube =>
        /\ AllCoords("gc") = internal_coords["gc"]
        /\ Iter(AllCoords("gc")) = Keys(internal_coords["gc"])
        /\ Length(AllCoords("gc")) = nAdds - nRemoves

\* a standalone collection after two adds, a remove and a failed add
C9_Witness ==
    /\ ndcube["gc"] = NoCube /\ nAdds = 2 /\ nRemoves = 1
    /\ Op = "add" /\ Coll = "gc" /\ last.outcome = "duplicate-name"

\* C10 as stated: the derived set has, for each axis i, an entry keyed by the
\* axis name (else the physical type) with physical type i and value i
\* combined with the first unit; without a record, or with an empty one, the
\* derived set is empty and the merged view is the explicit store.
C10_Original ==
    ndcube["gc"] = Cube =>
        LET dw == low_level_wcs
            d == Derived("gc")
        IN  IF dw.has /\ Len(dw.value) > 0
            THEN /\ \A i \in 1..Len(dw.value) :
                       /\ HasKey(d, AxisNames(dw)[i])
                       /\ At(d, AxisNames(dw)[i]).ptype = dw.world_axis_physical_types[i]
                       /\ At(d, AxisNames(dw)[i]).coord =
                              Quantity(dw.value[i], dw.world_axis_units[1])
                 /\ Range(Keys(d)) = Range(AxisNames(dw))
            ELSE d = <<>> /\ AllCoords("gc") = internal_coords["gc"]

\* C10 amended: as stated, but the entry keyed by a name has the physical type
\* and value of the last axis with that name.
C10_DerivedSet ==
    ndcube["gc"] = Cube =>
        LET dw == low_level_wcs
            d == Derived("gc")
            n == Len(dw.value)
        IN  IF dw.has /\ n > 0
            THEN /\ \A i \in 1..n :
                       /\ HasKey(d, AxisNames(dw)[i])
                       /\ (\A j \in (i + 1)..n : AxisNames(dw)[j] # AxisNames(dw)[i]) =>
                             /\ At(d, AxisNames(dw)[i]).ptype = dw.world_axis_physical_types[i]
                             /\ At(d, AxisNames(dw)[i]).coord =
                                    Quantity(dw.value[i], dw.world_axis_units[1])
                 /\ Range(Keys(d)) = Range(AxisNames(dw))
                 /\ \A k \in Range(Keys(d)) \ Range(Keys(internal_coords["gc"])) :
                       At(AllCoords("gc"), k) = At(d, k)
            ELSE d = <<>> /\ AllCoords("gc") = internal_coords["gc"]

\* the parent has just changed to two dropped axes with different units
C10_Witness ==
    /\ Op = "parent" /\ low_level_wcs = WcsTwo
    /\ last.pre.low_level_wcs = WcsTime
    /\ ~HasKey(internal_coords["gc"], "a")
    /\ GetItem(AllCoords("gc"), "a") = Found(Quantity(2, "nm"))

====
